---- MODULE Spec2Model ----
(***************************************************************************)
(* Cloud Dronitor API (src/main.py): CSV upload of drone readings, the     *)
(* date-filtered query over the stored readings, the file-backed read and  *)
(* the API-key check applied to all three endpoints.                       *)
(*                                                                         *)
(* Text is a sequence of one-character strings.  A datetime is the tuple   *)
(* <<year, month, day, hour, minute, second>>, compared field by field as  *)
(* Python's datetime does.  An Optional[int] is <<>> (None) or <<v>>.      *)
(***************************************************************************)
EXTENDS Integers, Sequences, FiniteSets, TLC

VARIABLES store, clock, dataDir, pc, ukey, payload, idx, readings, resp

vars == <<store, clock, dataDir, pc, ukey, payload, idx, readings, resp>>

\* ------------------------------------------------------------------ bounds

\* Upload requests that may be in flight together.
NumUploads == 2

\* Rows of a generated CSV payload (SpecUpload) or lines of a generated file
\* (SpecFiles).
MaxRows == 2

\* Readings in a store drawn for the query specification (SpecQuery).
MaxStore == 2

\* ------------------------------------------------------------ text helpers

None == <<>>

Some(v) == <<v>>

Range(s) == {s[i] : i \in 1..Len(s)}

Digits == {"0", "1", "2", "3", "4", "5", "6", "7", "8", "9"}

DigitVal(c) ==
    CASE c = "0" -> 0 [] c = "1" -> 1 [] c = "2" -> 2 [] c = "3" -> 3
      [] c = "4" -> 4 [] c = "5" -> 5 [] c = "6" -> 6 [] c = "7" -> 7
      [] c = "8" -> 8 [] c = "9" -> 9

\* The index of the first occurrence of character c in s, or 0.
RECURSIVE IndexOf(_, _, _)
IndexOf(s, c, from) ==
    IF from > Len(s) THEN 0
    ELSE IF s[from] = c THEN from
    ELSE IndexOf(s, c, from + 1)

\* str.split(sep): the pieces of s between separators; always at least one
\* piece ("".split(",") == [""]).
RECURSIVE SplitOn(_, _)
SplitOn(s, sep) ==
    LET i == IndexOf(s, sep, 1) IN
    IF i = 0 THEN <<s>>
    ELSE <<SubSeq(s, 1, i - 1)>> \o SplitOn(SubSeq(s, i + 1, Len(s)), sep)

\* The lines of a text: split at "\n", a final line break adding no line
\* and the empty text having no line (str.splitlines, and the iteration of
\* StringIO that csv.reader consumes).
SplitLines(s) ==
    IF s = <<>> THEN <<>>
    ELSE IF s[Len(s)] = "\n" THEN SplitOn(SubSeq(s, 1, Len(s) - 1), "\n")
    ELSE SplitOn(s, "\n")

\* str.strip() over the blank character.
RECURSIVE Strip(_)
Strip(s) ==
    IF s = <<>> THEN s
    ELSE IF s[1] = " " THEN Strip(Tail(s))
    ELSE IF s[Len(s)] = " " THEN Strip(SubSeq(s, 1, Len(s) - 1))
    ELSE s

\* str.join: the pieces with sep between them.
RECURSIVE Join(_, _)
Join(pieces, sep) ==
    IF pieces = <<>> THEN <<>>
    ELSE IF Len(pieces) = 1 THEN pieces[1]
    ELSE pieces[1] \o sep \o Join(Tail(pieces), sep)

\* csv.reader over text without quote characters: one row per line, an
\* empty line giving the empty row [], any other line its comma-separated
\* fields.
CsvRows(text) ==
    LET ls == SplitLines(text) IN
    [i \in 1..Len(ls) |-> IF ls[i] = <<>> THEN <<>> ELSE SplitOn(ls[i], ",")]

\* -------------------------------------------------------------- float()

RECURSIVE DigitsValue(_, _)
DigitsValue(s, acc) ==
    IF s = <<>> THEN acc ELSE DigitsValue(Tail(s), 10 * acc + DigitVal(s[1]))

RECURSIVE DropTrailingZeros(_)
DropTrailingZeros(s) ==
    IF s # <<>> /\ s[Len(s)] = "0" THEN DropTrailingZeros(SubSeq(s, 1, Len(s) - 1))
    ELSE s

\* Whether float(s) succeeds, for s over digits, ".", "-", "+", blanks and
\* letters that spell neither nan nor inf nor an exponent: surrounding
\* blanks are dropped, then an optional sign, then digits with at most one
\* "." and at least one digit.
IsFloat(s) ==
    LET t == Strip(s)
        u == IF t # <<>> /\ t[1] \in {"-", "+"} THEN Tail(t) ELSE t
        parts == SplitOn(u, ".")
    IN  /\ Len(parts) \in {1, 2}
        /\ \A i \in 1..Len(u) : u[i] \in Digits \cup {"."}
        /\ \E i \in 1..Len(u) : u[i] \in Digits

\* The value float(s) returns, for IsFloat(s): sign, integer part, and the
\* fraction's digits without trailing zeros.  Two texts have the same value
\* exactly when Python's floats compare (and print) equal, -0.0 apart.
FloatOf(s) ==
    LET t == Strip(s)
        u == IF t # <<>> /\ t[1] \in {"-", "+"} THEN Tail(t) ELSE t
        parts == SplitOn(u, ".")
    IN  [neg |-> t[1] = "-",
         ip |-> DigitsValue(parts[1], 0),
         fp |-> IF Len(parts) = 2 THEN DropTrailingZeros(parts[2]) ELSE <<>>]

\* ------------------------------------------------------------- datetime

IsLeap(y) == (y % 4 = 0 /\ y % 100 # 0) \/ y % 400 = 0

DaysInMonth(y, m) ==
    IF m = 2 THEN (IF IsLeap(y) THEN 29 ELSE 28)
    ELSE IF m \in {4, 6, 9, 11} THEN 30
    ELSE 31

\* Whether datetime(y, m, d, ...) is constructed rather than raising
\* ValueError.
DateOk(y, m, d) ==
    /\ y \in 1..9999
    /\ m \in 1..12
    /\ d \in 1..DaysInMonth(y, m)

DateTime(y, m, d, h, mi, s) == <<y, m, d, h, mi, s>>

\* a < b on datetimes.
DtLess(a, b) ==
    \E i \in 1..6 : a[i] < b[i] /\ \A j \in 1..(i - 1) : a[j] = b[j]

DtLeq(a, b) == a = b \/ DtLess(a, b)

RECURSIVE DaysBeforeMonth(_, _)
DaysBeforeMonth(y, m) ==
    IF m = 1 THEN 0 ELSE DaysBeforeMonth(y, m - 1) + DaysInMonth(y, m - 1)

LeapsBefore(y) == ((y - 1) \div 4) - ((y - 1) \div 100) + ((y - 1) \div 400)

\* datetime.timestamp() of a naive datetime on a host whose local time is
\* UTC: seconds since 1970-01-01 00:00:00.
Timestamp(dt) ==
    LET days == 365 * (dt[1] - 1970) + (LeapsBefore(dt[1]) - LeapsBefore(1970))
                + DaysBeforeMonth(dt[1], dt[2]) + (dt[3] - 1)
    IN  days * 86400 + dt[4] * 3600 + dt[5] * 60 + dt[6]

\* ------------------------------------------------------- configuration

\* The configured key set (get_api_keys over the API_KEYS variable).
API_KEYS == {"alpha", "beta"}

\* The X-API-Key values requests present.
Keys == {"alpha", "wrong"}

\* The names GET /files/{date} is asked for.
Dates == {"2024-12-31", "2025-01-01"}

Procs == 1..NumUploads

\* A check that lets every key pass.
VerifyApiKeyOpen(key) == TRUE

\* verify_api_key: whether the request passes (otherwise HTTP 403).

VerifyApiKey(key) == key \in API_KEYS

\* --------------------------------------------------------- the readings

\* The DroneReading upload_data builds for row `row` at position i when the
\* clock reads `now`.  batch is not a column: it records which upload built
\* the reading, for the properties only.
MkReading(now, row, i, p) ==
    [id |-> <<Timestamp(now), FloatOf(row[1]), FloatOf(row[2]), i>>,
     longitude |-> FloatOf(row[1]),
     latitude |-> FloatOf(row[2]),
     aqi |-> FloatOf(row[3]),
     timestamp |-> now,
     raw_data |-> Join(row, <<",">>),
     batch |-> p]

\* A loop body that asks for at least three fields.
RowSurvivesLax(row) ==
    Len(row) >= 3 /\ \A i \in 1..3 : IsFloat(row[i])

\* The loop body's decision for one row: kept when it has three fields and
\* float() raises on none of them.
RowSurvives(row) ==
    IF Len(row) # 3 THEN FALSE
    ELSE IsFloat(row[1]) /\ IsFloat(row[2]) /\ IsFloat(row[3])

\* A write that commits row by row and stops at the first key already
\* present.
RECURSIVE InsertEach(_, _)
InsertEach(st, rs) ==
    IF rs = <<>> THEN [ok |-> TRUE, store |-> st]
    ELSE IF \E s \in st : s.id = rs[1].id THEN [ok |-> FALSE, store |-> st]
    ELSE InsertEach(st \cup {rs[1]}, Tail(rs))

CommitResultPerRow(st, rs) == InsertEach(st, rs)

\* db.add_all(readings); await db.commit(): one transaction over a table
\* whose primary key is id.  A key already present (or repeated inside the
\* batch) fails the whole transaction.
CommitResult(st, rs) ==
    IF \/ \E i \in 1..Len(rs) : \E s \in st : s.id = rs[i].id
       \/ \E i, j \in 1..Len(rs) : i # j /\ rs[i].id = rs[j].id
    THEN [ok |-> FALSE, store |-> st]
    ELSE [ok |-> TRUE, store |-> st \cup Range(rs)]

\* ------------------------------------------------------------ responses

NoResp ==
    [ep |-> "none", key |-> "", status |-> 0, n |-> 0, body |-> <<>>,
     year |-> None, month |-> None, day |-> None, date |-> ""]

Forbidden(ep, key) == [NoResp EXCEPT !.ep = ep, !.key = key, !.status = 403]

\* ------------------------------------------------------- POST /upload

\* The request arrives: the key is checked before the handler runs; with a
\* valid key the body is read and the row loop starts.
UploadBegin(p, key, text) ==
    /\ pc[p] = "idle"
    /\ IF ~VerifyApiKey(key)
       THEN /\ resp' = Forbidden("upload", key)
            /\ UNCHANGED <<store, clock, dataDir, pc, ukey, payload, idx, readings>>
       ELSE /\ pc' = [pc EXCEPT ![p] = IF CsvRows(text) = <<>> THEN "commit" ELSE "rows"]
            /\ ukey' = [ukey EXCEPT ![p] = key]
            /\ payload' = [payload EXCEPT ![p] = text]
            /\ idx' = [idx EXCEPT ![p] = 0]
            /\ readings' = [readings EXCEPT ![p] = <<>>]
            /\ UNCHANGED <<store, clock, dataDir, resp>>

\* One iteration of the row loop: row idx[p] of the payload.
UploadRow(p) ==
    /\ pc[p] = "rows"
    /\ LET rows == CsvRows(payload[p])
           row == rows[idx[p] + 1]
       IN  /\ readings' = [readings EXCEPT ![p] =
                  IF RowSurvives(row)
                  THEN Append(@, MkReading(clock, row, idx[p], p))
                  ELSE @]
           /\ idx' = [idx EXCEPT ![p] = @ + 1]
           /\ pc' = [pc EXCEPT ![p] = IF idx[p] + 1 = Len(rows) THEN "commit" ELSE "rows"]
    /\ UNCHANGED <<store, clock, dataDir, ukey, payload, resp>>

\* The bulk write and the response.
UploadCommit(p) ==
    /\ pc[p] = "commit"
    /\ LET res == CommitResult(store, readings[p]) IN
       /\ store' = res.store
       /\ pc' = [pc EXCEPT ![p] = IF res.ok THEN "done" ELSE "failed"]
       /\ resp' = [NoResp EXCEPT !.ep = "upload", !.key = ukey[p],
                                 !.status = IF res.ok THEN 200 ELSE 500,
                                 !.n = IF res.ok THEN Len(readings[p]) ELSE 0]
    /\ UNCHANGED <<clock, dataDir, ukey, payload, idx, readings>>

\* The commit fails for a reason of the database's (the connection is
\* lost): the exception surfaces as a server error.
UploadCommitFail(p) ==
    /\ pc[p] = "commit"
    /\ pc' = [pc EXCEPT ![p] = "failed"]
    /\ resp' = [NoResp EXCEPT !.ep = "upload", !.key = ukey[p], !.status = 500]
    /\ UNCHANGED <<store, clock, dataDir, ukey, payload, idx, readings>>

\* The wall clock moves on to a later instant of `instants`.
Tick(instants) ==
    /\ \E t \in instants : DtLess(clock, t) /\ clock' = t
    /\ UNCHANGED <<store, dataDir, pc, ukey, payload, idx, readings, resp>>

\* ------------------------------------------------------ GET /readings

\* year, month and day all given: the bounds of that day.
DayWindow(y, m, d) ==
    [ok |-> DateOk(y, m, d),
     start |-> DateTime(y, m, d, 0, 0, 0),
     end |-> DateTime(y, m, d, 23, 59, 59)]

\* A month window that does not roll December into the next year.
MonthWindowNoRoll(y, m) ==
    [ok |-> DateOk(y, m, 1) /\ DateOk(y, m + 1, 1),
     start |-> DateTime(y, m, 1, 0, 0, 0),
     end |-> DateTime(y, m + 1, 1, 0, 0, 0)]

\* year and month given: the bounds of that month.
MonthWindow(y, m) ==
    LET next_year == IF m = 12 THEN y + 1 ELSE y
        next_month == IF m = 12 THEN 1 ELSE m + 1
    IN  [ok |-> DateOk(y, m, 1) /\ DateOk(next_year, next_month, 1),
         start |-> DateTime(y, m, 1, 0, 0, 0),
         end |-> DateTime(next_year, next_month, 1, 0, 0, 0)]

\* A year window that ends at December 31.
YearWindowToDec31(y) ==
    [ok |-> DateOk(y, 1, 1) /\ DateOk(y, 12, 31),
     start |-> DateTime(y, 1, 1, 0, 0, 0),
     end |-> DateTime(y, 12, 31, 0, 0, 0)]

\* year alone: the bounds of that year.
YearWindow(y) ==
    [ok |-> DateOk(y, 1, 1) /\ DateOk(y + 1, 1, 1),
     start |-> DateTime(y, 1, 1, 0, 0, 0),
     end |-> DateTime(y + 1, 1, 1, 0, 0, 0)]

\* A filter that looks at month without asking for a year first.
QueryWindowNoYearGuard(year, month, day) ==
    IF year = None /\ month = None
    THEN [filtered |-> FALSE, ok |-> TRUE, start |-> <<>>, end |-> <<>>]
    ELSE IF year = None
    THEN [filtered |-> TRUE, ok |-> FALSE, start |-> <<>>, end |-> <<>>]
    ELSE [filtered |-> TRUE] @@
         (IF month # None
          THEN IF day # None
               THEN DayWindow(year[1], month[1], day[1])
               ELSE MonthWindow(year[1], month[1])
          ELSE YearWindow(year[1]))

\* The filter get_readings applies: none without a year; otherwise the
\* window of the finest field given, month counting only with a year and
\* day only with a month.  ok is FALSE when a datetime(...) call raises.
QueryWindow(year, month, day) ==
    IF year # None
    THEN [filtered |-> TRUE] @@
         (IF month # None
          THEN IF day # None
               THEN DayWindow(year[1], month[1], day[1])
               ELSE MonthWindow(year[1], month[1])
          ELSE YearWindow(year[1]))
    ELSE [filtered |-> FALSE, ok |-> TRUE, start |-> <<>>, end |-> <<>>]

\* .where(timestamp >= start_date, timestamp < end_date)
Matches(r, w) ==
    ~w.filtered \/ (DtLeq(w.start, r.timestamp) /\ DtLess(r.timestamp, w.end))

\* The ascending order.
RECURSIVE OrderByTimestampAsc(_)
OrderByTimestampAsc(S) ==
    IF S = {} THEN {<<>>}
    ELSE UNION {{<<r>> \o t : t \in OrderByTimestampAsc(S \ {r})} :
                r \in {x \in S : \A y \in S : DtLeq(x.timestamp, y.timestamp)}}

\* order_by(timestamp.desc()): every order of the rows in which no row
\* comes before one with a later timestamp (the database is free among
\* rows of equal timestamp).
RECURSIVE OrderByTimestampDesc(_)
OrderByTimestampDesc(S) ==
    IF S = {} THEN {<<>>}
    ELSE UNION {{<<r>> \o t : t \in OrderByTimestampDesc(S \ {r})} :
                r \in {x \in S : \A y \in S : DtLeq(y.timestamp, x.timestamp)}}

\* One element of the response: the id is left out, the timestamp is given
\* in ISO-8601 (which spells out the same six fields).
Serialize(r) ==
    [longitude |-> r.longitude, latitude |-> r.latitude, aqi |-> r.aqi,
     timestamp |-> r.timestamp, raw_data |-> r.raw_data]

SerializeAll(rs) == [i \in 1..Len(rs) |-> Serialize(rs[i])]

GetReadings(key, year, month, day) ==
    /\ LET q == [NoResp EXCEPT !.ep = "readings", !.key = key,
                               !.year = year, !.month = month, !.day = day]
           w == QueryWindow(year, month, day)
       IN  IF ~VerifyApiKey(key) THEN resp' = [q EXCEPT !.status = 403]
           ELSE IF ~w.ok THEN resp' = [q EXCEPT !.status = 500]
           ELSE \E rows \in OrderByTimestampDesc({r \in store : Matches(r, w)}) :
                    resp' = [q EXCEPT !.status = 200, !.body = SerializeAll(rows)]
    /\ UNCHANGED <<store, clock, dataDir, pc, ukey, payload, idx, readings>>

\* -------------------------------------------------- GET /files/{date}

\* A loop that skips a malformed line, as the upload does.
RECURSIVE FileLoopSkipping(_, _)
FileLoopSkipping(lines, acc) ==
    IF lines = <<>> THEN [ok |-> TRUE, readings |-> acc]
    ELSE LET f == SplitOn(Strip(lines[1]), ",") IN
         IF Len(f) # 4 \/ ~IsFloat(f[1]) \/ ~IsFloat(f[2]) \/ ~IsFloat(f[3])
         THEN FileLoopSkipping(Tail(lines), acc)
         ELSE FileLoopSkipping(Tail(lines),
                  Append(acc, [longitude |-> FloatOf(f[1]), latitude |-> FloatOf(f[2]),
                               aqi |-> FloatOf(f[3]), timestamp |-> f[4]]))

\* The loop over the file's lines: the records, or ValueError (ok FALSE)
\* as soon as a line does not unpack into four fields or float() raises.
RECURSIVE FileLoop(_, _)
FileLoop(lines, acc) ==
    IF lines = <<>> THEN [ok |-> TRUE, readings |-> acc]
    ELSE LET f == SplitOn(Strip(lines[1]), ",") IN
         IF Len(f) # 4 THEN [ok |-> FALSE, readings |-> <<>>]
         ELSE IF ~IsFloat(f[1]) \/ ~IsFloat(f[2]) \/ ~IsFloat(f[3])
         THEN [ok |-> FALSE, readings |-> <<>>]
         ELSE FileLoop(Tail(lines),
                  Append(acc, [longitude |-> FloatOf(f[1]), latitude |-> FloatOf(f[2]),
                               aqi |-> FloatOf(f[3]), timestamp |-> f[4]]))

GetFileData(key, date) ==
    /\ LET q == [NoResp EXCEPT !.ep = "files", !.key = key, !.date = date] IN
       IF ~VerifyApiKey(key) THEN resp' = [q EXCEPT !.status = 403]
       ELSE IF dataDir[date] = None THEN resp' = [q EXCEPT !.status = 404]
       ELSE LET res == FileLoop(SplitLines(dataDir[date][1]), <<>>) IN
            IF res.ok THEN resp' = [q EXCEPT !.status = 200, !.body = res.readings]
            ELSE resp' = [q EXCEPT !.status = 400]
    /\ UNCHANGED <<store, clock, dataDir, pc, ukey, payload, idx, readings>>

\* --------------------------------------------------------------- inputs

\* The text of a CSV whose rows are `rows`, each a sequence of fields.
TextOf(rows) ==
    Join([i \in 1..Len(rows) |-> Join(rows[i], <<",">>)], <<"\n">>)

\* Payloads of the concurrent specification: two batches whose second rows
\* get the same id when built at the same clock reading, one of them
\* starting with a malformed row.
MainTexts ==
    {TextOf(<< <<<<"1">>, <<"2">>, <<"3">>>>, <<<<"4">>, <<"5">>, <<"6">>>> >>),
     TextOf(<< <<<<"b", "a", "d">>, <<"r", "o", "w">>>>,
               <<<<"4", ".", "0">>, <<"5">>, <<"6">>>> >>)}

\* The queries of the concurrent specification.
MainQueries ==
    {<<None, None, None>>, <<Some(2024), Some(12), Some(31)>>, <<Some(2024), None, None>>}

\* "1.0,2.0,50\nbad,row\n3.0,4.0,75"
Scenario ==
    TextOf(<< <<<<"1", ".", "0">>, <<"2", ".", "0">>, <<"5", "0">>>>,
              <<<<"b", "a", "d">>, <<"r", "o", "w">>>>,
              <<<<"3", ".", "0">>, <<"4", ".", "0">>, <<"7", "5">>>> >>)

UFields == {<<"-", "1", ".", "5">>, <<"x">>}

\* Rows of three fields, numeric or not, a short row, a long row and the
\* empty line.
URows ==
    [1..3 -> UFields]
        \cup {<<>>, <<<<"7">>, <<"7">>>>, <<<<"7">>, <<"7">>, <<"7">>, <<"7">>>>,
              <<<<" ", "7">>, <<"7", ".">>, <<"+", ".", "5">>>>,
              <<<<"7">>, <<"-">>, <<"7">>>>, <<<<"7">>, <<"7">>, <<"1", ".", "2", ".", "3">>>>,
              <<<<"7">>, <<>>, <<"7">>>>}

UploadTexts ==
    {TextOf(rs) : rs \in UNION {[1..n -> URows] : n \in 0..MaxRows}} \cup {Scenario}

\* Lines of a data file: four fields with the first three numeric or not,
\* a line of three fields, one of five, a blank-padded line and the empty
\* line.
FLines ==
    {f \o <<<<"t">>>> : f \in [1..3 -> {<<"7">>, <<"x">>}]}
        \cup {<<>>, <<<<"7">>, <<"7">>, <<"t">>>>,
              <<<<"7">>, <<"7">>, <<"7">>, <<"t">>, <<"t">>>>,
              <<<<" ", "7">>, <<"7">>, <<"7">>, <<"t", " ">>>>}

FileTexts ==
    {TextOf(ls) : ls \in UNION {[1..n -> FLines] : n \in 0..MaxRows}}
        \cup {TextOf(<< <<<<"7">>, <<"7">>, <<"7">>, <<"t">>>> >>) \o <<"\n">>}

MainInstants ==
    {DateTime(2024, 12, 31, 23, 59, 59), DateTime(2025, 1, 1, 0, 0, 0)}

\* Timestamps of the readings of a drawn store: the first and last second
\* of the first and last day of a month, around the turns of year and month.
QInstants ==
    {t \in {DateTime(y, m, d, hms[1], hms[2], hms[3]) :
                y \in {2024, 2025}, m \in {1, 2, 12}, d \in {1, 31},
                hms \in {<<0, 0, 0>>, <<23, 59, 59>>}} :
        DateOk(t[1], t[2], t[3])}
        \cup {DateTime(2026, 1, 1, 0, 0, 0)}

QYears == {None, Some(2024), Some(2025)}

QMonths == {None, Some(1), Some(2), Some(12), Some(13)}

QDays == {None, Some(1), Some(31)}

\* ------------------------------------------------------- specifications

InitRequests ==
    /\ pc = [p \in Procs |-> "idle"]
    /\ ukey = [p \in Procs |-> ""]
    /\ payload = [p \in Procs |-> <<>>]
    /\ idx = [p \in Procs |-> 0]
    /\ readings = [p \in Procs |-> <<>>]
    /\ resp = NoResp

\* The service after start-up: an empty table, one well-formed data file.
Init ==
    /\ store = {}
    /\ clock = DateTime(2024, 12, 31, 23, 59, 59)
    /\ dataDir = [d \in Dates |->
                    IF d = "2024-12-31"
                    THEN Some(TextOf(<< <<<<"7">>, <<"7">>, <<"7">>, <<"t">>>> >>))
                    ELSE None]
    /\ InitRequests

\* Concurrent uploads, queries and file reads.
Next ==
    \/ \E p \in Procs, k \in Keys, t \in MainTexts : UploadBegin(p, k, t)
    \/ \E p \in Procs : UploadRow(p)
    \/ \E p \in Procs : UploadCommit(p)
    \/ \E p \in Procs : UploadCommitFail(p)
    \/ \E k \in Keys, q \in MainQueries : GetReadings(k, q[1], q[2], q[3])
    \/ \E k \in Keys : GetFileData(k, "2024-12-31")
    \/ Tick(MainInstants)

Spec == Init /\ [][Next]_vars

\* One upload of a generated payload.
NextUpload ==
    \/ pc[1] = "idle" /\ \E k \in Keys, t \in UploadTexts : UploadBegin(1, k, t)
    \/ UploadRow(1)
    \/ UploadCommit(1)
    \/ UploadCommitFail(1)
    \/ Tick(MainInstants)

SpecUpload == Init /\ [][NextUpload]_vars

\* One query over a table of readings that earlier one-row uploads (batch
\* 0) stored at instants of QInstants.
InitQuery ==
    /\ store \in {{MkReading(f[i], <<<<"1">>, <<"2">>, <<"3">>>>, 0, 0) : i \in 1..n} :
                     f \in [1..MaxStore -> QInstants], n \in 0..MaxStore}
    /\ clock = DateTime(2026, 1, 1, 0, 0, 0)
    /\ dataDir = [d \in Dates |-> None]
    /\ InitRequests

NextQuery ==
    resp = NoResp /\ \E k \in Keys, y \in QYears, m \in QMonths, d \in QDays : GetReadings(k, y, m, d)

SpecQuery == InitQuery /\ [][NextQuery]_vars

\* One file read over a data directory holding one generated file.
InitFiles ==
    /\ store = {}
    /\ clock = DateTime(2024, 12, 31, 23, 59, 59)
    /\ dataDir \in {[d \in Dates |-> IF d = "2024-12-31" THEN c ELSE None] :
                       c \in {None} \cup {Some(t) : t \in FileTexts}}
    /\ InitRequests

NextFiles ==
    resp = NoResp /\ \E k \in Keys, d \in Dates : GetFileData(k, d)

SpecFiles == InitFiles /\ [][NextFiles]_vars

\* ------------------------------------------------------------ properties

\* What the claims call a valid row: exactly three fields, each one a text
\* float() accepts.
ValidRow(row) == Len(row) = 3 /\ \A i \in 1..Len(row) : IsFloat(row[i])

ValidRowsOf(text) == SelectSeq(CsvRows(text), ValidRow)

BodySet == {resp.body[i] : i \in 1..Len(resp.body)}

\* The response body holds exactly the readings of S, each once.
BodyIsExactly(S) ==
    /\ Len(resp.body) = Cardinality(S)
    /\ BodySet = {Serialize(r) : r \in S}

Answered(ep) == resp.ep = ep /\ resp.key \in API_KEYS

\* C1: on every endpoint a request is answered 403 exactly when its key is
\* not in the configured set; a step answering 403 changes neither the
\* table nor any upload in progress, and the table changes only in a step
\* that answers an upload made with a configured key.
C1_KeyGate ==
    [][/\ resp'.ep # "none" => (resp'.status = 403 <=> resp'.key \notin API_KEYS)
       /\ (resp' # resp /\ resp'.status = 403)
              => UNCHANGED <<store, pc, payload, idx, readings>>
       /\ store' # store => (resp'.ep = "upload" /\ resp'.key \in API_KEYS)]_vars

\* A rejected upload arriving while the table holds readings and another
\* upload has built part of its batch.
C1_Witness ==
    /\ resp.ep = "upload" /\ resp.status = 403 /\ resp.key = "wrong"
    /\ store # {}
    /\ \E p \in Procs : pc[p] = "rows" /\ readings[p] # <<>>

\* C2: when the row loop of an upload has ended, its batch is the valid
\* rows of the payload, in order, and the bulk write of that batch into the
\* empty table cannot fail on the data; when the upload answers 200, the
\* count it reports and the number of readings the table gained both equal
\* the number of valid rows.
C2_CountsValidRows ==
    LET valid == ValidRowsOf(payload[1]) IN
    /\ pc[1] \in {"commit", "done", "failed"} =>
          /\ Len(readings[1]) = Len(valid)
          /\ \A i \in 1..Len(valid) : readings[1][i].raw_data = Join(valid[i], <<",">>)
    /\ pc[1] = "commit" => CommitResult(store, readings[1]).ok
    /\ (resp.ep = "upload" /\ resp.status = 200) =>
          /\ resp.n = Len(valid)
          /\ Cardinality(store) = Len(valid)
          /\ store = Range(readings[1])

\* The scenario payload (a malformed row between two valid ones) answered
\* with 2 stored.
C2_Witness ==
    /\ payload[1] = Scenario
    /\ resp.ep = "upload" /\ resp.status = 200 /\ resp.n = 2
    /\ Len(CsvRows(payload[1])) = 3
    /\ Cardinality(store) = 2

\* The midnight that follows day d.
NextDayStart(y, m, d) ==
    IF d < DaysInMonth(y, m) THEN DateTime(y, m, d + 1, 0, 0, 0)
    ELSE IF m < 12 THEN DateTime(y, m + 1, 1, 0, 0, 0)
    ELSE DateTime(y + 1, 1, 1, 0, 0, 0)

\* C3: a query for year, month and day returns the stored readings of
\* 00:00:00 and of 23:59:59 of that day and not the reading of 00:00:00 of
\* the next day.
C3_DayIncludesLastSecond ==
    (/\ Answered("readings") /\ resp.status = 200
     /\ resp.year # None /\ resp.month # None /\ resp.day # None) =>
        LET y == resp.year[1]
            m == resp.month[1]
            d == resp.day[1]
        IN  \A r \in store :
              /\ r.timestamp = DateTime(y, m, d, 0, 0, 0) => Serialize(r) \in BodySet
              /\ r.timestamp = DateTime(y, m, d, 23, 59, 59) => Serialize(r) \in BodySet
              /\ r.timestamp = NextDayStart(y, m, d) => Serialize(r) \notin BodySet

\* C4: a query for year Y and month M (1..12) without a day answers 200
\* with exactly the readings from the 1st of M 00:00:00 up to, not
\* including, the 1st of the next month 00:00:00, which for M = 12 is
\* January 1 of Y + 1.
C4_MonthWindow ==
    (/\ Answered("readings")
     /\ resp.year # None /\ resp.month # None /\ resp.day = None
     /\ resp.month[1] \in 1..12) =>
        LET y == resp.year[1]
            m == resp.month[1]
            upper == IF m = 12 THEN DateTime(y + 1, 1, 1, 0, 0, 0)
                     ELSE DateTime(y, m + 1, 1, 0, 0, 0)
        IN  /\ resp.status = 200
            /\ BodyIsExactly({r \in store :
                   /\ DtLeq(DateTime(y, m, 1, 0, 0, 0), r.timestamp)
                   /\ DtLess(r.timestamp, upper)})

\* December queried over a table holding its last second and the first
\* second of the next year.
C4_Witness ==
    /\ Answered("readings") /\ resp.status = 200
    /\ resp.year = Some(2024) /\ resp.month = Some(12) /\ resp.day = None
    /\ \E r \in store : r.timestamp = DateTime(2024, 12, 31, 23, 59, 59)
    /\ \E r \in store : r.timestamp = DateTime(2025, 1, 1, 0, 0, 0)
    /\ Len(resp.body) = 1

\* C5: a query for year Y without a month answers 200 with exactly the
\* readings from January 1 of Y 00:00:00 up to, not including, January 1
\* of Y + 1 00:00:00, whatever day is given.
C5_YearWindow ==
    (Answered("readings") /\ resp.year # None /\ resp.month = None) =>
        LET y == resp.year[1] IN
        /\ resp.status = 200
        /\ BodyIsExactly({r \in store :
               /\ DtLeq(DateTime(y, 1, 1, 0, 0, 0), r.timestamp)
               /\ DtLess(r.timestamp, DateTime(y + 1, 1, 1, 0, 0, 0))})

\* A year queried with a day and no month, over a table holding the last
\* second of that year and the first of the next.
C5_Witness ==
    /\ Answered("readings") /\ resp.status = 200
    /\ resp.year = Some(2024) /\ resp.month = None /\ resp.day = Some(31)
    /\ \E r \in store : r.timestamp = DateTime(2024, 12, 31, 23, 59, 59)
    /\ \E r \in store : r.timestamp = DateTime(2025, 1, 1, 0, 0, 0)
    /\ Len(resp.body) = 1

\* C6: a query without a year answers 200 with every reading of the table,
\* whatever month and day are given.
C6_NoYearNoFilter ==
    (Answered("readings") /\ resp.year = None) =>
        /\ resp.status = 200
        /\ BodyIsExactly(store)

\* No year, a month no calendar has and a day, over a table of readings of
\* different years.
C6_Witness ==
    /\ Answered("readings") /\ resp.status = 200
    /\ resp.year = None /\ resp.month = Some(13) /\ resp.day = Some(31)
    /\ \E r, t \in store : r.timestamp[1] # t.timestamp[1]
    /\ Len(resp.body) = Cardinality(store)

NonIncreasing(b) ==
    \A i, j \in 1..Len(b) : i < j => DtLeq(b[j].timestamp, b[i].timestamp)

StrictlyDecreasing(b) ==
    \A i, j \in 1..Len(b) : i < j => DtLess(b[j].timestamp, b[i].timestamp)

Unfiltered == Answered("readings") /\ resp.status = 200 /\ resp.year = None

\* C7 as claimed: every query's readings come in non-increasing timestamp
\* order, and the unfiltered query returns all stored readings in strictly
\* decreasing timestamp order.
C7_StrictlyDescending ==
    /\ (Answered("readings") /\ resp.status = 200) => NonIncreasing(resp.body)
    /\ Unfiltered => (BodyIsExactly(store) /\ StrictlyDecreasing(resp.body))

\* C7 as amended: every query's readings come in non-increasing timestamp
\* order, and the unfiltered query returns all stored readings in that
\* order (readings built at one clock reading share their timestamp).
C7_Descending ==
    /\ (Answered("readings") /\ resp.status = 200) => NonIncreasing(resp.body)
    /\ Unfiltered => BodyIsExactly(store)

\* An unfiltered answer of at least three readings, two of them sharing a
\* timestamp and two of them not.
C7_Witness ==
    /\ Unfiltered /\ Len(resp.body) >= 3
    /\ \E i, j \in 1..Len(resp.body) :
          i # j /\ resp.body[i].timestamp = resp.body[j].timestamp
    /\ \E i, j \in 1..Len(resp.body) : resp.body[i].timestamp # resp.body[j].timestamp

\* What the claim calls a well-formed line of a data file.
WellFormedLine(line) ==
    LET f == SplitOn(Strip(line), ",") IN
    Len(f) = 4 /\ \A i \in 1..3 : IsFloat(f[i])

\* C8: the file read answers 404 exactly when the file is missing; when
\* the file exists and some line is not well formed it answers 400 with no
\* record; otherwise 200 with one record per line.
C8_FileRead ==
    Answered("files") =>
        LET file == dataDir[resp.date] IN
        IF file = None THEN resp.status = 404 /\ resp.body = <<>>
        ELSE LET lines == SplitLines(file[1]) IN
             IF \E i \in 1..Len(lines) : ~WellFormedLine(lines[i])
             THEN resp.status = 400 /\ resp.body = <<>>
             ELSE resp.status = 200 /\ Len(resp.body) = Len(lines)

\* A file whose first line is well formed and whose second line is not,
\* answered 400.
C8_Witness ==
    /\ Answered("files") /\ resp.status = 400
    /\ dataDir[resp.date] # None
    /\ LET lines == SplitLines(dataDir[resp.date][1]) IN
       Len(lines) = 2 /\ WellFormedLine(lines[1]) /\ ~WellFormedLine(lines[2])

\* C9: no two readings of the table share an id, the ids of one upload's
\* batch are pairwise distinct, and no id an upload builds equals the id of
\* a reading stored by another upload.
C9_BuiltIdsUnique ==
    /\ \A r, s \in store : r.id = s.id => r = s
    /\ \A p \in Procs :
          /\ \A i, j \in 1..Len(readings[p]) :
                readings[p][i].id = readings[p][j].id => i = j
          /\ \A i \in 1..Len(readings[p]) :
                \A s \in store : s.batch # p => s.id # readings[p][i].id

StoredOf(p) == {r \in store : r.batch = p}

\* C10: the table holds, of each upload, either nothing or its whole batch
\* (and then the upload has answered 200); an upload whose commit failed
\* has left nothing; an unfiltered query answers with the table as it is.
C10_BulkWriteAtomic ==
    /\ \A p \in Procs :
          \/ StoredOf(p) = {}
          \/ pc[p] = "done" /\ StoredOf(p) = Range(readings[p])
    /\ \A p \in Procs : pc[p] = "failed" => StoredOf(p) = {}
    /\ Unfiltered => BodyIsExactly(store)

\* An unfiltered query answered while one upload has committed two
\* readings, and another, its batch of two colliding with them in one id,
\* has failed.
C10_Witness ==
    /\ Unfiltered
    /\ \E p, q \in Procs :
          /\ pc[p] = "done" /\ Cardinality(StoredOf(p)) = 2
          /\ pc[q] = "failed" /\ Len(readings[q]) = 2
          /\ \E i \in 1..2 : \A s \in store : s.id # readings[q][i].id
          /\ \E i \in 1..2 : \E s \in store : s.id = readings[q][i].id

====
